---------------------------- MODULE Spec2Model ----------------------------
(***************************************************************************)
(* Verification model of graphene_sqlalchemy (alchql):                     *)
(*   - converter.py             relationship / column field construction   *)
(*   - sqlalchemy_converter.py  single-dispatch column type conversion     *)
(*   - session_ql.py            per-request session handling               *)
(*   - the batch resolver described by the design document                 *)
(***************************************************************************)
EXTENDS Naturals, Sequences, FiniteSets

VARIABLES
    \* ---- relationship classifier (converter.py) ----
    relationship_prop,   \* entity -> [direction, uselist] of its relationship
    custom_resolver,     \* entity -> result of get_custom_resolver(obj_type, name)
    registry,            \* entity -> graph type bound in the registry
    dynamic,             \* entity -> the Dynamic built for its relationship
    child_type,          \* entity -> child_type read by the last dynamic_type()
    field,               \* entity -> value returned by the last dynamic_type()
    build_lookups,       \* entities looked up in the registry while building
    \* ---- column type conversion (sqlalchemy_converter.py, converter.py) ----
    utils_installed,     \* whether "from sqlalchemy_utils import ..." succeeded
    column,              \* the column being converted
    converted,           \* results of the convert_sqlalchemy_type calls so far
    model_field,         \* result of convert_sqlalchemy_column for the column
    next_id,             \* identity given to the next object that is created
    \* ---- batch resolver (one execution pass) ----
    parents,             \* parent rows returned by the list field
    handle,              \* <<relationship, parent>> -> state of its resolver call
    pending,             \* relationship -> parent identities awaiting a fetch
    fetches,             \* relationship -> parent sets of the fetches issued
    pass_pc,             \* position of the execution pass
    \* ---- HTTP handler (session_ql.py) ----
    pc,                  \* request -> position in _handle_http_request
    session,             \* request -> state of its AsyncSession
    opened,              \* request -> number of sessions opened for it
    executed,            \* request -> number of graphql() calls started
    result,              \* request -> what graphql() returned
    response             \* request -> the JSONResponse that was returned

relVars == <<relationship_prop, custom_resolver, registry, dynamic,
             child_type, field, build_lookups>>

convVars == <<utils_installed, column, converted, model_field, next_id>>

batchVars == <<parents, handle, pending, fetches, pass_pc>>

httpVars == <<pc, session, opened, executed, result, response>>

vars == <<relVars, convVars, batchVars, httpVars>>

-----------------------------------------------------------------------------
(* Relationship classifier                                                 *)

\* Two entities that reference each other: A.rel -> B and B.rel -> A.
Entities == {"A", "B"}

Target(e) == IF e = "A" THEN "B" ELSE "A"

\* sqlalchemy.orm.interfaces direction symbols used by dynamic_type.
Directions == {"MANYTOONE", "ONETOMANY", "MANYTOMANY"}

\* registry.get_type_for_model(entity) when nothing is bound for it.
NoType == [model |-> "None", connection |-> FALSE]

GraphType(e, conn) == [model |-> e, connection |-> conn]

get_type_for_model(e) == registry[e]

\* Value of dynamic_type() when it returns None.
NoField ==
    [shape |-> "None", type |-> NoType, resolver |-> "None",
     factory |-> "None", batching |-> "absent"]

Unevaluated ==
    [shape |-> "unevaluated", type |-> NoType, resolver |-> "None",
     factory |-> "None", batching |-> "absent"]

Unbuilt ==
    [built |-> FALSE, failed |-> FALSE,
     connection_field_factory |-> "None", batching |-> "absent"]

\* get_batch_resolver(relationship_prop, single=True)
get_batch_resolver(single) == IF single THEN "batch_single" ELSE "batch"

\* Variant of _convert_o2o_or_m2o_relationship that leaves the resolver
\* unset when there is no custom resolver.
_convert_o2o_or_m2o_relationship_unbatched(e, batching) ==
    [shape |-> "single", type |-> get_type_for_model(Target(e)),
     resolver |-> custom_resolver[e], factory |-> "None", batching |-> "absent"]

\* _convert_o2o_or_m2o_relationship: the batching keyword is taken out of
\* field_kwargs by the signature and is not read afterwards.
_convert_o2o_or_m2o_relationship(e, batching) ==
    LET ct == get_type_for_model(Target(e))
        resolver == IF custom_resolver[e] # "None"
                    THEN custom_resolver[e]
                    ELSE get_batch_resolver(TRUE)
    IN  [shape |-> "single", type |-> ct, resolver |-> resolver,
         factory |-> "None", batching |-> "absent"]

\* _convert_o2m_or_m2m_relationship: get_custom_resolver is never consulted;
\* field_kwargs (batching included) goes on to Field or to the factory.
_convert_o2m_or_m2m_relationship(e, connection_field_factory, batching) ==
    LET ct == get_type_for_model(Target(e))
    IN  IF ~ct.connection
        THEN [shape |-> "list", type |-> ct, resolver |-> "None",
              factory |-> "None", batching |-> batching]
        ELSE LET f == IF connection_field_factory = "None"
                      THEN "BatchSQLAlchemyConnectionField.from_relationship"
                      ELSE connection_field_factory
             IN  [shape |-> "connection", type |-> ct,
                  resolver |-> IF connection_field_factory = "None"
                               THEN get_batch_resolver(FALSE)
                               ELSE "factory",
                  factory |-> f, batching |-> batching]

\* Variant of dynamic_type that requires both conditions for a single object.
dynamic_type_both(e, connection_field_factory, batching) ==
    LET direction == relationship_prop[e].direction
        ct == get_type_for_model(Target(e))
    IN  IF ct = NoType THEN NoField
        ELSE IF direction = "MANYTOONE" /\ ~relationship_prop[e].uselist
        THEN _convert_o2o_or_m2o_relationship(e, batching)
        ELSE IF direction \in {"ONETOMANY", "MANYTOMANY"}
        THEN _convert_o2m_or_m2m_relationship(e, connection_field_factory, batching)
        ELSE NoField

\* Variant of dynamic_type without the "if not child_type" early return.
dynamic_type_unchecked(e, connection_field_factory, batching) ==
    LET direction == relationship_prop[e].direction
    IN  IF direction = "MANYTOONE" \/ ~relationship_prop[e].uselist
        THEN _convert_o2o_or_m2o_relationship(e, batching)
        ELSE _convert_o2m_or_m2m_relationship(e, connection_field_factory, batching)

\* dynamic_type(): the closure evaluated by graphene's Dynamic.
dynamic_type(e, connection_field_factory, batching) ==
    LET direction == relationship_prop[e].direction
        ct == get_type_for_model(Target(e))
    IN  IF ct = NoType THEN NoField
        ELSE IF direction = "MANYTOONE" \/ ~relationship_prop[e].uselist
        THEN _convert_o2o_or_m2o_relationship(e, batching)
        ELSE IF direction \in {"ONETOMANY", "MANYTOMANY"}
        THEN _convert_o2m_or_m2m_relationship(e, connection_field_factory, batching)
        ELSE NoField

\* Variant of convert_sqlalchemy_relationship that resolves the target type
\* while the field is built instead of inside the closure.
convert_sqlalchemy_relationship_eager(e, connection_field_factory, batching) ==
    /\ dynamic' = [dynamic EXCEPT ![e] =
            [built |-> TRUE, failed |-> get_type_for_model(Target(e)) = NoType,
             connection_field_factory |-> connection_field_factory,
             batching |-> batching]]
    /\ build_lookups' = build_lookups \cup {Target(e)}

\* convert_sqlalchemy_relationship: wraps the closure, reads nothing.
convert_sqlalchemy_relationship(e, connection_field_factory, batching) ==
    /\ dynamic' = [dynamic EXCEPT ![e] =
            [built |-> TRUE, failed |-> FALSE,
             connection_field_factory |-> connection_field_factory,
             batching |-> batching]]
    /\ UNCHANGED build_lookups

InitRel ==
    /\ relationship_prop \in [Entities -> [direction : Directions, uselist : BOOLEAN]]
    /\ custom_resolver \in [Entities -> {"None", "resolve_field"}]
    /\ registry = [e \in Entities |-> NoType]
    /\ dynamic = [e \in Entities |-> Unbuilt]
    /\ child_type = [e \in Entities |-> NoType]
    /\ field = [e \in Entities |-> Unevaluated]
    /\ build_lookups = {}

\* The object type of entity e builds the field of its relationship.
BuildField(e) ==
    /\ ~dynamic[e].built
    /\ \E f \in {"None", "custom_factory"}, b \in {"absent", "True", "False"} :
          convert_sqlalchemy_relationship(e, f, b)
    /\ UNCHANGED <<relationship_prop, custom_resolver, registry, child_type, field>>
    /\ UNCHANGED <<convVars, batchVars, httpVars>>

\* The graph type of entity e is bound in the registry.
RegisterType(e) ==
    /\ registry[e] = NoType
    /\ \E conn \in BOOLEAN : registry' = [registry EXCEPT ![e] = GraphType(e, conn)]
    /\ UNCHANGED <<relationship_prop, custom_resolver, dynamic, child_type,
                   field, build_lookups>>
    /\ UNCHANGED <<convVars, batchVars, httpVars>>

\* graphene evaluates the Dynamic of entity e (Dynamic.get_type).
EvaluateDynamic(e) ==
    /\ dynamic[e].built
    /\ ~dynamic[e].failed
    /\ child_type' = [child_type EXCEPT ![e] = get_type_for_model(Target(e))]
    /\ field' = [field EXCEPT ![e] =
            dynamic_type(e, dynamic[e].connection_field_factory, dynamic[e].batching)]
    /\ UNCHANGED <<relationship_prop, custom_resolver, registry, dynamic,
                   build_lookups>>
    /\ UNCHANGED <<convVars, batchVars, httpVars>>

NextRel ==
    \E e \in Entities :
        \/ BuildField(e)
        \/ RegisterType(e)
        \/ EvaluateDynamic(e)

-----------------------------------------------------------------------------
(* Claims about the relationship classifier                                *)

Evaluated(e) == field[e].shape # "unevaluated"

DefaultFactory == "BatchSQLAlchemyConnectionField.from_relationship"

\* C1: when the target entity has a bound graph type, the evaluated field is
\* a single-object field if the direction is MANYTOONE or the relationship
\* uses no collection; otherwise a plain list field if the target type has
\* no connection, and a connection field built by the supplied factory (the
\* default batch connection factory when none is supplied) if it has one.
C1_FieldShape ==
    \A e \in Entities :
        (Evaluated(e) /\ child_type[e] # NoType) =>
            LET rp == relationship_prop[e]
                f == field[e]
            IN  /\ f.type = child_type[e]
                /\ IF rp.direction = "MANYTOONE" \/ ~rp.uselist
                   THEN f.shape = "single"
                   ELSE IF ~child_type[e].connection
                   THEN f.shape = "list" /\ f.factory = "None"
                   ELSE /\ f.shape = "connection"
                        /\ f.factory =
                              IF dynamic[e].connection_field_factory = "None"
                              THEN DefaultFactory
                              ELSE dynamic[e].connection_field_factory

C1_Witness ==
    \E e \in Entities :
        /\ relationship_prop[e].direction = "ONETOMANY"
        /\ ~relationship_prop[e].uselist
        /\ field[e].shape = "single"
        /\ relationship_prop[Target(e)].direction = "MANYTOMANY"
        /\ field[Target(e)].shape = "connection"
        /\ field[Target(e)].factory = DefaultFactory

\* C2: when the registry has no graph type for the target entity at the
\* time the deferred field is evaluated, the evaluation returns no field,
\* without an error and without a resolver, whatever the direction and
\* cardinality.
C2_UnboundTargetOmitted ==
    \A e \in Entities :
        (Evaluated(e) /\ child_type[e] = NoType) =>
            /\ field[e] = NoField
            /\ field[e].resolver = "None"

C2_Witness ==
    \E e \in Entities :
        /\ dynamic[e].built
        /\ field[e] = NoField
        /\ child_type[e] = NoType
        /\ relationship_prop[e].direction = "ONETOMANY"
        /\ relationship_prop[e].uselist
        /\ field[Target(e)] = NoField
        /\ relationship_prop[Target(e)].direction = "MANYTOONE"

\* C3: building a relationship field never reads the registry, so building
\* succeeds whether or not the target is bound yet; and an evaluation that
\* finds the target bound yields a field of the target's graph type.
C3_DeferredLookup ==
    /\ build_lookups = {}
    /\ \A e \in Entities :
          /\ ~dynamic[e].failed
          /\ (Evaluated(e) /\ child_type[e] # NoType) =>
                /\ field[e].shape # "None"
                /\ field[e].type.model = Target(e)
                /\ field[e].type = registry[Target(e)]

C3_Witness ==
    /\ \A e \in Entities : registry[e] # NoType
    /\ field["A"].type.model = "B"
    /\ field["B"].type.model = "A"

\* C4 (as claimed): whenever a custom resolver is configured for a
\* relationship field, the batch mechanism is bypassed: the produced field
\* carries the custom resolver (or no resolver at all, which leaves the
\* choice to graphene's own resolve_<name> lookup) and never a batch
\* resolver or one chosen by a connection factory, for single-object, list
\* and connection fields alike.
C4_CustomResolverEverywhere ==
    \A e \in Entities :
        (Evaluated(e) /\ field[e] # NoField /\ custom_resolver[e] # "None") =>
            field[e].resolver \in {custom_resolver[e], "None"}

\* C5 (as claimed): without a custom resolver, a field built with batching
\* disabled does not get the batch resolver, and a field built with
\* batching enabled does.
C5_BatchingOption ==
    \A e \in Entities :
        (Evaluated(e) /\ field[e] # NoField /\ custom_resolver[e] = "None") =>
            /\ dynamic[e].batching = "False" =>
                  field[e].resolver \notin {"batch_single", "batch"}
            /\ dynamic[e].batching = "True" =>
                  field[e].resolver \in {"batch_single", "batch"}

-----------------------------------------------------------------------------
(* Column type conversion                                                  *)

\* Calls of convert_sqlalchemy_type made on one column.
MaxCalls == 2

\* Names bound by "from sqlalchemy_utils import ..."; each is bound to
\* the builtin object when the import fails.
UtilsNames == {"ChoiceType", "JSONType", "ScalarListType", "TSVectorType"}

\* Method resolution order of the class of column.type, restricted to the
\* classes that can carry a rule (mixins are left out).
Mro(t) ==
    CASE t = "NoneType"       -> <<"NoneType", "object">>
      [] t = "Text"           -> <<"Text", "String", "TypeEngine", "object">>
      [] t = "Unicode"        -> <<"Unicode", "String", "TypeEngine", "object">>
      [] t = "UnicodeText"    -> <<"UnicodeText", "Text", "String", "TypeEngine", "object">>
      [] t = "VARCHAR"        -> <<"VARCHAR", "String", "TypeEngine", "object">>
      [] t = "Enum"           -> <<"Enum", "String", "TypeEngine", "object">>
      [] t = "TIMESTAMP"      -> <<"TIMESTAMP", "DateTime", "TypeEngine", "object">>
      [] t = "SmallInteger"   -> <<"SmallInteger", "Integer", "TypeEngine", "object">>
      [] t = "BigInteger"     -> <<"BigInteger", "Integer", "TypeEngine", "object">>
      [] t = "Float"          -> <<"Float", "Numeric", "TypeEngine", "object">>
      [] t = "PG_ARRAY"       -> <<"PG_ARRAY", "ARRAY", "TypeEngine", "object">>
      [] t = "PG_JSON"        -> <<"PG_JSON", "JSON", "TypeEngine", "object">>
      [] t = "JSONB"          -> <<"JSONB", "PG_JSON", "JSON", "TypeEngine", "object">>
      [] t \in UtilsNames \cup {"Interval"}
                              -> <<t, "TypeDecorator", "TypeEngine", "object">>
      [] OTHER                -> <<t, "TypeEngine", "object">>

SqlTypes ==
    {"Date", "Time", "String", "Text", "Unicode", "UnicodeText", "VARCHAR",
     "UUID", "INET", "CIDR", "DateTime", "TIMESTAMP", "SmallInteger",
     "Integer", "BigInteger", "Boolean", "Float", "Numeric", "Enum", "ARRAY",
     "PG_ARRAY", "HSTORE", "PG_JSON", "JSONB", "JSON", "Interval",
     "LargeBinary", "NullType"}

ArrayTypes == {"ARRAY", "PG_ARRAY"}

\* Item types of the array columns that are modelled.
ItemTypes == {"Integer", "BigInteger", "String", "Enum", "Interval", "JSON"}

\* The register() calls of the module in the order they are applied:
\* stacked decorators apply bottom-up, functions top-down.
Registrations ==
    << <<"TSVectorType", "convert_column_to_string">>,
       <<"CIDR", "convert_column_to_string">>,
       <<"INET", "convert_column_to_string">>,
       <<"UUID", "convert_column_to_string">>,
       <<"UnicodeText", "convert_column_to_string">>,
       <<"Unicode", "convert_column_to_string">>,
       <<"Text", "convert_column_to_string">>,
       <<"String", "convert_column_to_string">>,
       <<"Time", "convert_column_to_string">>,
       <<"Date", "convert_column_to_string">>,
       <<"DateTime", "convert_column_to_datetime">>,
       <<"Integer", "convert_column_to_int_or_id">>,
       <<"SmallInteger", "convert_column_to_int_or_id">>,
       <<"Boolean", "convert_column_to_boolean">>,
       <<"BigInteger", "convert_column_to_float">>,
       <<"Numeric", "convert_column_to_float">>,
       <<"Float", "convert_column_to_float">>,
       <<"Enum", "convert_enum_to_enum">>,
       <<"ChoiceType", "convert_choice_to_enum">>,
       <<"ScalarListType", "convert_scalar_list_to_list">>,
       <<"PG_ARRAY", "convert_array_to_list">>,
       <<"ARRAY", "convert_array_to_list">>,
       <<"JSONB", "convert_json_to_string">>,
       <<"PG_JSON", "convert_json_to_string">>,
       <<"HSTORE", "convert_json_to_string">>,
       <<"JSONType", "convert_json_type_to_string">> >>

\* The class a name of the module denotes.
ClassOf(name) ==
    IF name \in UtilsNames /\ ~utils_installed THEN "object" ELSE name

SetMax(S) == CHOOSE x \in S : \A y \in S : y <= x

SetMin(S) == CHOOSE x \in S : \A y \in S : x <= y

\* singledispatch registry: the last function registered for a class; the
\* undecorated convert_sqlalchemy_type is the initial entry for object.
Implementation(cls) ==
    LET at == {i \in DOMAIN Registrations : ClassOf(Registrations[i][1]) = cls}
    IN  IF at # {} THEN Registrations[SetMax(at)][2]
        ELSE IF cls = "object" THEN "convert_sqlalchemy_type"
        ELSE "none"

\* Variant of the dispatch: the first listed rule whose class the type is an
\* instance of, in place of the rule of the most specific class.
dispatch_first_listed(t) ==
    LET mro == Mro(t)
        classes == {mro[i] : i \in DOMAIN mro}
        at == {i \in DOMAIN Registrations : ClassOf(Registrations[i][1]) \in classes}
    IN  IF at # {} THEN Registrations[SetMin(at)][2]
        ELSE "convert_sqlalchemy_type"

\* singledispatch dispatch on type.__class__: the implementation of the
\* first class of the MRO that has one.
dispatch(t) ==
    LET mro == Mro(t)
        at == {i \in DOMAIN mro : Implementation(mro[i]) # "none"}
    IN  Implementation(mro[SetMin(at)])

\* Results of a conversion: a graphene type (singleton scalars have id 0,
\* objects made by the call have a fresh id) or a raised exception.
Raised == [raised |-> TRUE, tag |-> "Exception", id |-> 0, of |-> "", of_id |-> 0]

Scalar(tag) == [raised |-> FALSE, tag |-> tag, id |-> 0, of |-> "", of_id |-> 0]

Fresh(tag, id, of, of_id) ==
    [raised |-> FALSE, tag |-> tag, id |-> id, of |-> of, of_id |-> of_id]

\* The bodies of the registered functions other than convert_array_to_list;
\* nid is the identity of the next object created.
convert_scalar(t, col, nid) ==
    LET fn == dispatch(t)
    IN  CASE fn = "convert_column_to_string" -> Scalar("String")
          [] fn = "convert_column_to_datetime" -> Scalar("DateTime")
          [] fn = "convert_column_to_int_or_id" ->
                IF col.primary_key THEN Scalar("ID") ELSE Scalar("Int")
          [] fn = "convert_column_to_boolean" -> Scalar("Boolean")
          [] fn = "convert_column_to_float" -> Scalar("Float")
          [] fn = "convert_enum_to_enum" -> Fresh("lambda_enum_for_sa_enum", nid, "", 0)
          [] fn = "convert_choice_to_enum" -> Fresh("Enum", nid, "TABLE_COLUMN", 0)
          [] fn = "convert_scalar_list_to_list" -> Fresh("List", nid, "String", 0)
          [] fn \in {"convert_json_to_string", "convert_json_type_to_string"} ->
                Scalar("JSONString")
          [] OTHER -> Raised

\* convert_array_to_list: converts column.type.item_type, then wraps it.
convert_array_to_list(col, nid) ==
    LET inner_type == convert_scalar(col.item_type, col, nid)
    IN  IF inner_type.raised THEN Raised
        ELSE Fresh("List", IF inner_type.id = 0 THEN nid ELSE nid + 1,
                   inner_type.tag, inner_type.id)

\* convert_sqlalchemy_type(type, column, registry)
convert_sqlalchemy_type(t, col, nid) ==
    IF dispatch(t) = "convert_array_to_list"
    THEN convert_array_to_list(col, nid)
    ELSE convert_scalar(t, col, nid)

\* What the lambda returned by convert_enum_to_enum evaluates to: the enum
\* the registry keeps for the column's enumeration, the same at every call.
enum_for_sa_enum(r) ==
    [raised |-> FALSE, tag |-> "Enum", id |-> 0, of |-> "sa_enum", of_id |-> 0]

\* Number of objects a conversion result created.
Allocated(r) ==
    IF r.raised \/ r.id = 0 THEN 0 ELSE IF r.of_id = 0 THEN 1 ELSE 2

NoModelField == [built |-> FALSE, raised |-> FALSE, type_ |-> "None"]

\* convert_sqlalchemy_column: the default of type_ is computed before
\* setdefault looks at field_kwargs, so a failing conversion always raises.
convert_sqlalchemy_column(col, nid) ==
    LET default == convert_sqlalchemy_type(col.type, col, nid)
    IN  IF default.raised
        THEN [built |-> FALSE, raised |-> TRUE, type_ |-> "None"]
        ELSE [built |-> TRUE, raised |-> FALSE,
              type_ |-> IF col.type_kw = "supplied" THEN "supplied" ELSE default.tag]

Columns ==
    {c \in [type : SqlTypes \cup UtilsNames \cup {"NoneType"},
            primary_key : BOOLEAN,
            item_type : ItemTypes \cup {"None"},
            type_kw : {"absent", "supplied"}] :
        (c.item_type # "None") = (c.type \in ArrayTypes)}

InitConv ==
    /\ utils_installed \in BOOLEAN
    /\ column \in {c \in Columns : c.type \in UtilsNames => utils_installed}
    /\ converted = <<>>
    /\ model_field = NoModelField
    /\ next_id = 1

\* One call convert_sqlalchemy_type(column.type, column).
ConvertType ==
    /\ Len(converted) < MaxCalls
    /\ LET r == convert_sqlalchemy_type(column.type, column, next_id)
       IN  /\ converted' = Append(converted, r)
           /\ next_id' = next_id + Allocated(r)
    /\ UNCHANGED <<utils_installed, column, model_field>>
    /\ UNCHANGED <<relVars, batchVars, httpVars>>

\* convert_sqlalchemy_column builds the field of the column.
ConvertColumn ==
    /\ ~model_field.built
    /\ ~model_field.raised
    /\ model_field' = convert_sqlalchemy_column(column, next_id)
    /\ next_id' = next_id + Allocated(convert_sqlalchemy_type(column.type, column, next_id))
    /\ UNCHANGED <<utils_installed, column, converted>>
    /\ UNCHANGED <<relVars, batchVars, httpVars>>

NextConv ==
    \/ ConvertType
    \/ ConvertColumn

IdleRel ==
    /\ relationship_prop = [e \in Entities |-> [direction |-> "MANYTOONE", uselist |-> FALSE]]
    /\ custom_resolver = [e \in Entities |-> "None"]
    /\ registry = [e \in Entities |-> NoType]
    /\ dynamic = [e \in Entities |-> Unbuilt]
    /\ child_type = [e \in Entities |-> NoType]
    /\ field = [e \in Entities |-> Unevaluated]
    /\ build_lookups = {}

IdleConv ==
    /\ utils_installed = TRUE
    /\ column = [type |-> "String", primary_key |-> FALSE, item_type |-> "None",
                 type_kw |-> "absent"]
    /\ converted = <<>>
    /\ model_field = NoModelField
    /\ next_id = 1

-----------------------------------------------------------------------------
(* Batch resolver: one execution pass over a list field of parent rows,    *)
(* with the relationship of each entity requested on every parent.         *)

\* Largest number of parent rows in the list field.
MaxParents == 3

ParentIds == 1 .. MaxParents

\* Resolver that _convert_o2o_or_m2o_relationship gives the field of e.
field_resolver(e) == _convert_o2o_or_m2o_relationship(e, "absent").resolver

IsBatch(resolver) == resolver \in {"batch_single", "batch"}

\* The values are needed once every resolver of the list field has returned
\* its handle; only then are pending requests flushed.
FlushGuard(e) ==
    /\ pending[e] # {}
    /\ \A p \in 1 .. parents : handle[<<e, p>>] # "unstarted"

InitBatch ==
    /\ parents \in 0 .. MaxParents
    /\ handle = [k \in Entities \X ParentIds |-> "unstarted"]
    /\ pending = [e \in Entities |-> {}]
    /\ fetches = [e \in Entities |-> <<>>]
    /\ pass_pc = "resolving"

IdleBatch ==
    /\ parents = 0
    /\ handle = [k \in Entities \X ParentIds |-> "unstarted"]
    /\ pending = [e \in Entities |-> {}]
    /\ fetches = [e \in Entities |-> <<>>]
    /\ pass_pc = "resolving"

\* The resolver of relationship e is invoked for parent p: a batch
\* resolver registers the parent and returns a suspended handle, a custom
\* resolver answers directly.
ResolveField(e, p) ==
    /\ pass_pc = "resolving"
    /\ p \in 1 .. parents
    /\ handle[<<e, p>>] = "unstarted"
    /\ IF IsBatch(field_resolver(e))
       THEN /\ pending' = [pending EXCEPT ![e] = @ \cup {p}]
            /\ handle' = [handle EXCEPT ![<<e, p>>] = "suspended"]
       ELSE /\ handle' = [handle EXCEPT ![<<e, p>>] = "direct"]
            /\ UNCHANGED pending
    /\ UNCHANGED <<parents, fetches, pass_pc>>
    /\ UNCHANGED <<relVars, convVars, httpVars>>

\* One consolidated fetch for the parents pending on relationship e; the
\* result is handed to every suspended handle of the relationship.
Flush(e) ==
    /\ pass_pc = "resolving"
    /\ FlushGuard(e)
    /\ fetches' = [fetches EXCEPT ![e] = Append(@, pending[e])]
    /\ handle' = [k \in Entities \X ParentIds |->
                    IF k[1] = e /\ k[2] \in pending[e] THEN "resolved" ELSE handle[k]]
    /\ pending' = [pending EXCEPT ![e] = {}]
    /\ UNCHANGED <<parents, pass_pc>>
    /\ UNCHANGED <<relVars, convVars, httpVars>>

\* The pass ends when no resolver call is outstanding.
FinishPass ==
    /\ pass_pc = "resolving"
    /\ \A e \in Entities, p \in 1 .. parents :
          handle[<<e, p>>] \in {"resolved", "direct"}
    /\ pass_pc' = "done"
    /\ UNCHANGED <<parents, handle, pending, fetches>>
    /\ UNCHANGED <<relVars, convVars, httpVars>>

NextBatch ==
    \/ \E e \in Entities, p \in ParentIds : ResolveField(e, p)
    \/ \E e \in Entities : Flush(e)
    \/ FinishPass

-----------------------------------------------------------------------------
(* HTTP handler: SessionQLApp._handle_http_request                         *)

\* Requests handled concurrently by the application.
MaxRequests == 2

Requests == 1 .. MaxRequests

\* Variant of leaving "async with AsyncSession(...)" that closes the
\* session only when the block ends normally.
session_exit_normal_only(r) ==
    session' = [session EXCEPT ![r] = IF pc[r] = "exit_raise" THEN @ ELSE "closed"]

\* AsyncSession.__aexit__: runs on every way out of the with block.
session_exit(r) ==
    session' = [session EXCEPT ![r] = "closed"]

NoResponse == [status_code |-> 0, errors |-> "None"]

InitHttp ==
    /\ pc = [r \in Requests |-> "start"]
    /\ session = [r \in Requests |-> "none"]
    /\ opened = [r \in Requests |-> 0]
    /\ executed = [r \in Requests |-> 0]
    /\ result = [r \in Requests |-> "None"]
    /\ response = [r \in Requests |-> NoResponse]

\* _get_operation_from_request raises ValueError: 400, nothing else runs.
RejectUnparsable(r) ==
    /\ pc[r] = "start"
    /\ pc' = [pc EXCEPT ![r] = "responded"]
    /\ response' = [response EXCEPT ![r] =
            [status_code |-> 400, errors |-> "e.args[0]"]]
    /\ UNCHANGED <<session, opened, executed, result>>
    /\ UNCHANGED <<relVars, convVars, batchVars>>

\* The body is a list of operations: 400, nothing else runs.
RejectList(r) ==
    /\ pc[r] = "start"
    /\ pc' = [pc EXCEPT ![r] = "responded"]
    /\ response' = [response EXCEPT ![r] =
            [status_code |-> 400, errors |-> "This server does not support batching"]]
    /\ UNCHANGED <<session, opened, executed, result>>
    /\ UNCHANGED <<relVars, convVars, batchVars>>

\* A single operation without a "query" key: operation["query"] raises
\* before the with block is entered.
MissingQuery(r) ==
    /\ pc[r] = "start"
    /\ pc' = [pc EXCEPT ![r] = "raised"]
    /\ UNCHANGED <<session, opened, executed, result, response>>
    /\ UNCHANGED <<relVars, convVars, batchVars>>

\* _get_context_value: "async with AsyncSession(self.engine) as session".
OpenSession(r) ==
    /\ pc[r] = "start"
    /\ session' = [session EXCEPT ![r] = "open"]
    /\ opened' = [opened EXCEPT ![r] = @ + 1]
    /\ pc' = [pc EXCEPT ![r] = "context"]
    /\ UNCHANGED <<executed, result, response>>
    /\ UNCHANGED <<relVars, convVars, batchVars>>

\* The context factory (or the default context) yields the context value,
\* or the factory raises inside the session block.
MakeContext(r) ==
    /\ pc[r] = "context"
    /\ \E ok \in BOOLEAN :
          pc' = [pc EXCEPT ![r] = IF ok THEN "execute" ELSE "exit_raise"]
    /\ UNCHANGED <<session, opened, executed, result, response>>
    /\ UNCHANGED <<relVars, convVars, batchVars>>

\* await graphql(...): returns a result (with or without errors) or raises;
\* then context_value.get("background"), which may raise as well.
Execute(r) ==
    /\ pc[r] = "execute"
    /\ executed' = [executed EXCEPT ![r] = @ + 1]
    /\ \E outcome \in {"data", "errors", "raise", "background_raise"} :
          /\ pc' = [pc EXCEPT ![r] =
                      IF outcome \in {"data", "errors"} THEN "exit_ok" ELSE "exit_raise"]
          /\ result' = [result EXCEPT ![r] =
                      IF outcome = "raise" THEN "None"
                      ELSE IF outcome = "background_raise" THEN "data"
                      ELSE outcome]
    /\ UNCHANGED <<session, opened, response>>
    /\ UNCHANGED <<relVars, convVars, batchVars>>

\* Leaving both with blocks after the body finished.
CloseSession(r) ==
    /\ pc[r] = "exit_ok"
    /\ session_exit(r)
    /\ pc' = [pc EXCEPT ![r] = "respond"]
    /\ UNCHANGED <<opened, executed, result, response>>
    /\ UNCHANGED <<relVars, convVars, batchVars>>

\* Leaving both with blocks while an exception propagates.
CloseSessionOnError(r) ==
    /\ pc[r] = "exit_raise"
    /\ session_exit(r)
    /\ pc' = [pc EXCEPT ![r] = "raised"]
    /\ UNCHANGED <<opened, executed, result, response>>
    /\ UNCHANGED <<relVars, convVars, batchVars>>

\* return JSONResponse(response, status_code=200, background=background)
Respond(r) ==
    /\ pc[r] = "respond"
    /\ response' = [response EXCEPT ![r] =
            [status_code |-> 200,
             errors |-> IF result[r] = "errors" THEN "formatted errors" ELSE "None"]]
    /\ pc' = [pc EXCEPT ![r] = "responded"]
    /\ UNCHANGED <<session, opened, executed, result>>
    /\ UNCHANGED <<relVars, convVars, batchVars>>

NextHttp ==
    \E r \in Requests :
        \/ RejectUnparsable(r)
        \/ RejectList(r)
        \/ MissingQuery(r)
        \/ OpenSession(r)
        \/ MakeContext(r)
        \/ Execute(r)
        \/ CloseSession(r)
        \/ CloseSessionOnError(r)
        \/ Respond(r)

-----------------------------------------------------------------------------
(* Claims about the column type conversion                                 *)

Calls == DOMAIN converted

\* C6: the rule of the most specific matching type is the one applied: a
\* small or standard integer column gives ID when it is a primary key and
\* Int otherwise, a large-integer column gives Float whether or not it is a
\* primary key, an enumerated column gives the (lazy) enum, a text or
\* unicode column gives String, and a floating-point column gives Float.
C6_MostSpecificRule ==
    \A i \in Calls :
        LET r == converted[i]
            t == column.type
        IN  /\ t \in {"SmallInteger", "Integer"} =>
                  r.tag = (IF column.primary_key THEN "ID" ELSE "Int")
            /\ t = "BigInteger" => r.tag = "Float"
            /\ t = "Enum" => r.tag = "lambda_enum_for_sa_enum"
            /\ t \in {"Unicode", "UnicodeText", "Text"} => r.tag = "String"
            /\ t = "Float" => r.tag = "Float"

C6_Witness ==
    /\ column.type = "BigInteger"
    /\ column.primary_key
    /\ Len(converted) >= 1
    /\ converted[1].tag = "Float"

\* Names of the types that have a conversion rule, as written in the module.
RuleNames == {Registrations[i][1] : i \in DOMAIN Registrations}

MatchesNoRule(t) == \A i \in DOMAIN Mro(t) : Mro(t)[i] \notin RuleNames

Unconvertible(col) ==
    \/ MatchesNoRule(col.type)
    \/ col.type \in ArrayTypes /\ MatchesNoRule(col.item_type)

\* C7 (as claimed): for a column whose type matches no conversion rule (a
\* column without a type and an array of such items included) every
\* conversion raises, and so does building the field of the column: no
\* field is produced for it.
C7_UnconvertibleRaises ==
    Unconvertible(column) =>
        /\ \A i \in Calls : converted[i].raised
        /\ ~model_field.built

\* The graph type a conversion result stands for: a lazy enum is
\* evaluated, and a List is compared by what it wraps (List.__eq__).
TypeIdentity(r) ==
    IF r.tag = "lambda_enum_for_sa_enum" THEN enum_for_sa_enum(r)
    ELSE IF r.tag = "List"
    THEN [r EXCEPT !.id = 0,
                   !.of_id = IF r.of = "lambda_enum_for_sa_enum" THEN 0 ELSE @]
    ELSE r

\* C8 (as claimed): for a supported column type the conversion does not
\* raise, and two conversions of the same column give the same type
\* identity, for enumerated, choice and array columns too.
C8_SameTypeIdentity ==
    ~Unconvertible(column) =>
        /\ \A i \in Calls : ~converted[i].raised
        /\ \A i, j \in Calls :
              TypeIdentity(converted[i]) = TypeIdentity(converted[j])

-----------------------------------------------------------------------------
(* Claims about the batch resolver                                         *)

Batched(e) == custom_resolver[e] = "None"

-----------------------------------------------------------------------------
(* Claims about the HTTP handler                                           *)

\* C10: a request that reaches query execution has exactly one session,
\* opened before execution starts and closed before the handler returns the
\* response or lets the exception out, on the success, error-result and
\* raising paths alike; a request answered with 400 opens no session and
\* executes nothing.
C10_SessionScopedToRequest ==
    \A r \in Requests :
        /\ opened[r] <= 1
        /\ executed[r] <= opened[r]
        /\ pc[r] = "execute" => session[r] = "open"
        /\ pc[r] \in {"respond", "responded", "raised"} =>
              session[r] = (IF opened[r] = 1 THEN "closed" ELSE "none")
        /\ response[r].status_code = 400 =>
              opened[r] = 0 /\ executed[r] = 0 /\ session[r] = "none"
        /\ response[r].status_code = 200 =>
              opened[r] = 1 /\ executed[r] = 1 /\ session[r] = "closed"

C10_Witness ==
    \E r1, r2 \in Requests :
        /\ response[r1].status_code = 200
        /\ response[r1].errors = "formatted errors"
        /\ session[r1] = "closed"
        /\ pc[r2] = "raised"
        /\ executed[r2] = 1
        /\ session[r2] = "closed"

-----------------------------------------------------------------------------
(* Specifications                                                          *)

Init == InitRel /\ IdleConv /\ IdleBatch /\ InitHttp

Next == NextRel

Spec == Init /\ [][Next]_vars

ConvInit == InitConv /\ IdleRel /\ IdleBatch /\ InitHttp

SpecConv == ConvInit /\ [][NextConv]_vars

BatchInit ==
    /\ InitBatch /\ IdleConv /\ InitHttp
    /\ relationship_prop = [e \in Entities |-> [direction |-> "MANYTOONE", uselist |-> FALSE]]
    /\ custom_resolver \in [Entities -> {"None", "resolve_field"}]
    /\ registry = [e \in Entities |-> GraphType(e, FALSE)]
    /\ dynamic = [e \in Entities |-> Unbuilt]
    /\ child_type = [e \in Entities |-> NoType]
    /\ field = [e \in Entities |-> Unevaluated]
    /\ build_lookups = {}

SpecBatch == BatchInit /\ [][NextBatch]_vars

HttpInit == InitHttp /\ IdleRel /\ IdleConv /\ IdleBatch

SpecHttp == HttpInit /\ [][NextHttp]_vars

=============================================================================
